---- MODULE Spec2Model ----
(***************************************************************************)
(* Model of software/server-software/fetch_tomtom_data.py: the resolution  *)
(* of the LED location table (pruneCSVEntries), the retrieval of one speed *)
(* per canonical target (requestSpeeds, requestTileData,                   *)
(* requestSegmentData) and the writing of the artifacts (main,             *)
(* createAddendum).                                                        *)
(***************************************************************************)
EXTENDS Integers, Sequences, FiniteSets, TLC

\* ------------------------------------------------------------------------
\* Bounds of the model
\* ------------------------------------------------------------------------

\* LED numbers of the input tables range over 1..MaxLed.
MaxLed == 3

\* Number of rows of an input table given whole to pruneCSVEntries.
MaxRows == 3

\* ------------------------------------------------------------------------
\* Enumerations and input records
\* ------------------------------------------------------------------------

NORTH == "NORTH"
SOUTH == "SOUTH"
UNKNOWN == "UNKNOWN"

\* class Direction
Direction == {NORTH, SOUTH, UNKNOWN}

CURRENT == "CURRENT"
TYPICAL == "TYPICAL"

\* class SpeedType (UNKNOWN is shared with Direction)
SpeedType == {CURRENT, TYPICAL, UNKNOWN}

\* The value csv.DictReader gives a column the row does not have.
NoColumn == "<None>"

\* The decimal numerals of the LED numbers, as the table holds them.
Numerals == {ToString(n) : n \in 0..MaxLed}

\* What the 'Reference' column of a row can hold: nothing, a blank, a numeral.
RefFields == {NoColumn, ""} \cup Numerals

\* The 'Freeway' column: the reserved label and an ordinary one.
FreewayFields == {"Special", "101"}

\* One row of the table as csv.DictReader yields it.  'LED Number' is kept
\* as the integer int(entry['LED Number']) evaluates to.
Entries ==
    [led : 1..MaxLed, dir : {"North", "South"}, freeway : FreewayFields,
     ref : RefFields]

\* ------------------------------------------------------------------------
\* getReference
\* ------------------------------------------------------------------------

\* int(s) of Python on a column value: <<n>> for a numeral, <<>> when int()
\* raises (TypeError on None, ValueError on a blank).
ParseInt(s) ==
    IF s \in Numerals
    THEN <<CHOOSE n \in 0..MaxLed : ToString(n) = s>>
    ELSE <<>>

\* getReference: the reference of the entry, <<>> standing for None.
getReference(entry) == ParseInt(entry.ref)

\* ------------------------------------------------------------------------
\* pruneCSVEntries
\* ------------------------------------------------------------------------

\* Lines pruneCSVEntries writes to the log.
DupLine(led_num) == [kind |-> "duplicate", leds |-> <<led_num>>, ref |-> 0]
MissingLine(led_num) == [kind |-> "missing", leds |-> <<led_num>>, ref |-> 0]
BadRefLine(leds, ref_num) == [kind |-> "reference", leds |-> leds, ref |-> ref_num]

\* The locals of pruneCSVEntries before the first row is read.
EmptyScan ==
    [ret |-> <<>>, ref_to_leds |-> <<>>, seen_leds |-> {},
     bad_entries |-> FALSE, log |-> <<>>]

\* ref_to_leds is a dict in insertion order: a sequence of (key, list) pairs.
HasKey(ref_to_leds, k) == \E j \in 1..Len(ref_to_leds) : ref_to_leds[j].ref = k

KeyPos(ref_to_leds, k) == CHOOSE j \in 1..Len(ref_to_leds) : ref_to_leds[j].ref = k

\* A plausible slip: the referencing number is put at the head of the list.
AddReference_AtHead(ref_to_leds, reference, led_num) ==
    IF ~HasKey(ref_to_leds, reference)
    THEN Append(ref_to_leds, [ref |-> reference, leds |-> <<led_num>>])
    ELSE [ref_to_leds EXCEPT ![KeyPos(ref_to_leds, reference)].leds =
                                 <<led_num>> \o @]

\* Lines 388-391: a new key is appended, an existing key's list is extended.
AddReference(ref_to_leds, reference, led_num) ==
    IF ~HasKey(ref_to_leds, reference)
    THEN Append(ref_to_leds, [ref |-> reference, leds |-> <<led_num>>])
    ELSE [ref_to_leds EXCEPT ![KeyPos(ref_to_leds, reference)].leds =
                                 Append(@, led_num)]

\* A plausible slip: only the first of the two tests is made, so that the
\* rows tagged "South" are kept for NORTH.
SkippedRow_SouthOnly(entry, direction) ==
    entry.dir = "North" /\ direction = SOUTH

\* Whether the row is one of the opposite direction (lines 373-376).
SkippedRow(entry, direction) ==
    \/ entry.dir = "North" /\ direction = SOUTH
    \/ entry.dir = "South" /\ direction = NORTH

\* A plausible slip: only None counts as no reference.
NoReference_NoneOnly(reference) == reference = <<>>

\* Line 384: reference is None or reference == 0.
NoReference(reference) == reference = <<>> \/ reference = <<0>>

\* One iteration of the loop over csv_reader (lines 372-391).
ScanEntry(st, entry, direction) ==
    IF SkippedRow(entry, direction)
    THEN st
    ELSE LET led_num == entry.led IN
         IF led_num \in st.seen_leds
         THEN [st EXCEPT !.log = Append(@, DupLine(led_num)),
                         !.bad_entries = TRUE]
         ELSE LET reference == getReference(entry)
                  seen == [st EXCEPT !.seen_leds = @ \cup {led_num}]
              IN  IF NoReference(reference)
                  THEN [seen EXCEPT !.ret =
                            Append(@, [entry |-> entry, leds |-> <<led_num>>])]
                  ELSE [seen EXCEPT !.ref_to_leds =
                            AddReference(@, reference[1], led_num)]

\* The whole loop over the rows of csv_reader, from row i on.
RECURSIVE ScanFrom(_, _, _, _)
ScanFrom(st, rows, i, direction) ==
    IF i > Len(rows)
    THEN st
    ELSE ScanFrom(ScanEntry(st, rows[i], direction), rows, i + 1, direction)

\* sorted(seen_leds)
RECURSIVE Sorted(_)
Sorted(S) ==
    IF S = {}
    THEN <<>>
    ELSE LET m == CHOOSE x \in S : \A y \in S : x <= y
         IN  <<m>> \o Sorted(S \ {m})

\* The numbers a .. b in ascending order (empty when b < a).
Between(a, b) == [k \in 1..(b - a + 1) |-> a + k - 1]

\* Lines 398-408: the LED numbers logged as missing, walking the sorted
\* numbers from position i with sorted[i-1] as prev_led.
RECURSIVE MissingFrom(_, _)
MissingFrom(sorted, i) ==
    IF i > Len(sorted)
    THEN <<>>
    ELSE (IF sorted[i] # sorted[i - 1] + 1
          THEN Between(sorted[i - 1] + 1, sorted[i] - 1)
          ELSE <<>>) \o MissingFrom(sorted, i + 1)

\* A plausible slip: the walk starts below LED 1, as the check of
\* fetch_tomtom_two does, and not at the least number seen.
MissingLeds_FromOne(seen_leds) == MissingFrom(<<0>> \o Sorted(seen_leds), 2)

\* Lines 397-408: the numbers missing between the least and the greatest.
MissingLeds(seen_leds) == MissingFrom(Sorted(seen_leds), 2)

\* A plausible slip: the referencing numbers are dropped with their key.
ExtendTargets_NoExtend(ret, ref_to_leds) == ret

\* Lines 414-420: every entry of ret takes the LEDs that reference it.
ExtendTargets(ret, ref_to_leds) ==
    [i \in 1..Len(ret) |->
        IF HasKey(ref_to_leds, ret[i].entry.led)
        THEN [ret[i] EXCEPT !.leds =
                 @ \o ref_to_leds[KeyPos(ref_to_leds, ret[i].entry.led)].leds]
        ELSE ret[i]]

\* What the del of line 420 leaves in ref_to_leds, in insertion order.
LeftReferences(ret, ref_to_leds) ==
    SelectSeq(ref_to_leds,
              LAMBDA p : ~\E i \in 1..Len(ret) : ret[i].entry.led = p.ref)

\* The outcome of a call: exc is "" on return, else the exception's type.
Raise(type, msg, log) == [exc |-> type, msg |-> msg, ret |-> <<>>, log |-> log]
Return(ret, log) == [exc |-> "", msg |-> "", ret |-> ret, log |-> log]

\* Lines 412-429: the references are resolved and the bad ones reported.
CheckReferences(st) ==
    LET left == LeftReferences(st.ret, st.ref_to_leds)
        log == st.log \o [j \in 1..Len(left) |->
                            BadRefLine(left[j].leds, left[j].ref)]
    IN  IF Len(left) > 0
        THEN Raise("RuntimeError", "Bad references", log)
        ELSE Return(ExtendTargets(st.ret, st.ref_to_leds), log)

\* Lines 396-410: the check for missing LED numbers.
CheckMissing(st, allow_missing) ==
    LET missing == IF allow_missing THEN <<>> ELSE MissingLeds(st.seen_leds)
        log == st.log \o [j \in 1..Len(missing) |-> MissingLine(missing[j])]
    IN  IF Len(missing) > 0
        THEN Raise("RuntimeError", "Missing entries", log)
        ELSE CheckReferences([st EXCEPT !.log = log])

\* A plausible slip: the raise of line 395 is left out.
CheckEntries_NoDuplicateRaise(st, allow_missing) == CheckMissing(st, allow_missing)

\* Lines 393-429: the runtime checks made once the rows are read.
CheckEntries(st, allow_missing) ==
    IF st.bad_entries
    THEN Raise("RuntimeError", "Duplicate entries", st.log)
    ELSE CheckMissing(st, allow_missing)

\* A reader is [none |-> TRUE] for None, else the rows it yields.
NoReader == [none |-> TRUE, rows |-> <<>>]
Reader(rows) == [none |-> FALSE, rows |-> rows]

\* A plausible slip: the direction is not guarded, so that an UNKNOWN
\* direction skips no row and the table is resolved.
pruneCSVEntries_NoDirectionGuard(reader, dir, allow) ==
    IF reader.none
    THEN Raise("TypeError", "csv_reader argument is None", <<>>)
    ELSE CheckEntries(ScanFrom(EmptyScan, reader.rows, 1, dir), allow)

\* pruneCSVEntries(csv_reader, direction, allow_missing)
pruneCSVEntries(reader, dir, allow) ==
    IF reader.none
    THEN Raise("TypeError", "csv_reader argument is None", <<>>)
    ELSE IF dir = UNKNOWN
    THEN Raise("ValueError", "direction argument is UNKNOWN", <<>>)
    ELSE CheckEntries(ScanFrom(EmptyScan, reader.rows, 1, dir), allow)

\* ------------------------------------------------------------------------
\* requestTileData
\* ------------------------------------------------------------------------

\* The outcome of a call to a speed source: exc is "" when the call returns
\* val, else the type of the exception it raises; sent tells whether
\* requests.get was called.
Returns(val, sent) == [exc |-> "", val |-> val, sent |-> sent]
Raises(type, sent) == [exc |-> type, val |-> 0, sent |-> sent]

\* A 'Tile' column is the sequence of the components its '/' separate; no
\* component at all stands for None.
NoTile == <<>>

\* A plausible slip: any tile identifier is taken, whatever its separators.
validEntryTileData_AnyIdentifier(tile) == tile # NoTile

\* validEntryTileData: value.count('/') is one less than the components.
validEntryTileData(tile) ==
    IF tile = NoTile
    THEN FALSE
    ELSE Len(tile) - 1 = 2

\* Positions are counted from 0 as enumerate and the tags do.
\* Lines 268-272: the number of the first key named "traffic_level", else -1.
TrafficLevelTag(keys) ==
    IF \E k \in 1..Len(keys) : keys[k] = "traffic_level"
    THEN (CHOOSE k \in 1..Len(keys) :
             /\ keys[k] = "traffic_level"
             /\ \A j \in 1..(k - 1) : keys[j] # "traffic_level") - 1
    ELSE -1

\* Lines 278-282: the tags taken two by two (an odd last tag is dropped by
\* zip); the value index of the first pair whose key index is tag, else -1.
TrafficLevelFeature(tags, tag) ==
    LET pairs == Len(tags) \div 2
        hits == {k \in 1..pairs : tags[2 * k - 1] = tag}
    IN  IF hits = {}
        THEN -1
        ELSE tags[2 * (CHOOSE k \in hits : \A j \in hits : k <= j)]

\* A plausible slip: the product is cut to an integer and not rounded.
KmphToMph_Truncated(x) == (x * 621371) \div 1000000

\* round(x * 0.621371) for a double holding the integer x.
KmphToMph(x) == (x * 621371 + 500000) \div 1000000

\* Lines 255-299: the speed decoded from the tile of a 200 response.
DecodeTile(tile) ==
    IF Len(tile.layers) # 1
    THEN -1
    ELSE LET response_layer == tile.layers[1] IN
    IF Len(response_layer.features) # 1
    THEN -1
    ELSE LET response_feature == response_layer.features[1]
             traffic_level_tag == TrafficLevelTag(response_layer.keys)
         IN
    IF traffic_level_tag = -1
    THEN -1
    ELSE LET traffic_level_feature ==
                 TrafficLevelFeature(response_feature.tags, traffic_level_tag)
         IN
    IF traffic_level_feature = -1
    THEN -1
    ELSE IF Len(response_layer.values) < traffic_level_feature + 1
    THEN -1
    ELSE LET traffic_level_value == response_layer.values[traffic_level_feature + 1]
         IN
    IF traffic_level_value.type # "double"
    THEN -1
    ELSE KmphToMph(traffic_level_value.double)

\* requestTileData(entry, api_key) with the answer of the endpoint:
\*   kind "exception"   requests.get raises
\*   kind "status"      a status code other than 200
\*   kind "undecodable" a 200 whose content ParseFromString cannot parse
\*   kind "tile"        a 200 whose content parses to resp.tile
requestTileData(tile_column, resp) ==
    IF ~validEntryTileData(tile_column)
    THEN Returns(-1, FALSE)
    ELSE IF resp.kind = "exception"
    THEN Returns(-1, TRUE)
    ELSE IF resp.kind = "status"
    THEN Returns(-1, TRUE)
    ELSE IF resp.kind = "undecodable"
    THEN Raises("DecodeError", TRUE)
    ELSE Returns(DecodeTile(resp.tile), TRUE)

\* ------------------------------------------------------------------------
\* requestSegmentData
\* ------------------------------------------------------------------------

\* validEntrySegmentData
validEntrySegmentData(columns) ==
    IF columns.lat = NoColumn
    THEN FALSE
    ELSE IF columns.lon = NoColumn
    THEN FALSE
    ELSE IF columns.openlr = NoColumn
    THEN FALSE
    ELSE TRUE

\* A member of the JSON object: absent, or a value with its JSON type.
Absent == [type |-> "absent", str |-> "", num |-> 0]
JsonString(s) == [type |-> "string", str |-> s, num |-> 0]
JsonNumber(n) == [type |-> "number", str |-> "", num |-> n]
JsonBool(b) == [type |-> "bool", str |-> "", num |-> IF b THEN 1 ELSE 0]
JsonNull == [type |-> "null", str |-> "", num |-> 0]

\* int(json_segment_data.get(field, -1)): <<n>>, or <<>> when int() raises.
IntOfMember(member) ==
    IF member.type = "absent" THEN <<-1>>
    ELSE IF member.type \in {"number", "bool"} THEN <<member.num>>
    ELSE IF member.type = "string" THEN ParseInt(member.str)
    ELSE <<>>

\* Lines 172-196: the speed taken from the flowSegmentData object.
ReadSegment(openlr_column, speed_type, data) ==
    LET closed == data.roadClosure.type = "string"
                  /\ data.roadClosure.str = "true"
    IN
    IF closed /\ speed_type = CURRENT
    THEN Returns(0, TRUE)
    ELSE IF closed
    THEN Returns(-1, TRUE)
    ELSE LET speed ==
                 IF speed_type = CURRENT THEN IntOfMember(data.currentSpeed)
                 ELSE IF speed_type = TYPICAL THEN IntOfMember(data.freeFlowSpeed)
                 ELSE <<-1>>
         IN
    IF speed = <<>>
    THEN Raises("ValueError", TRUE)
    ELSE IF speed[1] = -1
    THEN Returns(-1, TRUE)
    ELSE IF ~(data.openlr.type = "string" /\ data.openlr.str = openlr_column)
            /\ ~(data.openlr.type = "absent" /\ openlr_column = "")
    THEN Returns(-1, TRUE)
    ELSE Returns(speed[1], TRUE)

\* requestSegmentData(entry, speed_type, api_key) with the answer of the
\* endpoint:
\*   kind "exception"   requests.get raises
\*   kind "status"      a status code other than 200
\*   kind "undecodable" a 200 whose text response.json() cannot parse
\*   kind "array"       a 200 whose JSON text is not an object
\*   kind "json"        a 200 whose flowSegmentData object is resp.data
requestSegmentData(columns, speed_type, resp) ==
    IF ~validEntrySegmentData(columns)
    THEN Returns(-1, FALSE)
    ELSE IF resp.kind = "exception"
    THEN Returns(-1, TRUE)
    ELSE IF resp.kind = "status"
    THEN Returns(-1, TRUE)
    ELSE IF resp.kind = "undecodable"
    THEN Raises("JSONDecodeError", TRUE)
    ELSE IF resp.kind = "array"
    THEN Raises("AttributeError", TRUE)
    ELSE ReadSegment(columns.openlr, speed_type, resp.data)

\* ------------------------------------------------------------------------
\* requestSpeeds
\* ------------------------------------------------------------------------

\* A plausible slip: the segment source is asked whatever the tile source
\* gave, and its speed is kept when it has one.
SpeedOfEntry_BothSources(entry, columns, speed_type, fail_with_zero, tile_resp, segment_resp) ==
    IF entry.freeway = "Special"
    THEN [exc |-> "", val |-> -2, tile_sent |-> FALSE, segment_sent |-> FALSE]
    ELSE LET tile == requestTileData(columns.tile, tile_resp)
             segment == requestSegmentData(columns, speed_type, segment_resp)
         IN
    IF tile.exc # "" \/ segment.exc # ""
    THEN [exc |-> "Error", val |-> 0, tile_sent |-> tile.sent,
          segment_sent |-> segment.sent]
    ELSE [exc |-> "",
          val |-> IF segment.val # -1 THEN segment.val
                  ELSE IF tile.val = -1 /\ fail_with_zero THEN 0 ELSE tile.val,
          tile_sent |-> tile.sent, segment_sent |-> segment.sent]

\* Lines 472-482: the speed of one entry.  columns are the entry's Tile,
\* Latitude, Longitude and openLr Code columns, tile_resp and segment_resp
\* the answers the two endpoints give when asked.
SpeedOfEntry(entry, columns, speed_type, fail_with_zero, tile_resp, segment_resp) ==
    IF entry.freeway = "Special"
    THEN [exc |-> "", val |-> -2, tile_sent |-> FALSE, segment_sent |-> FALSE]
    ELSE LET tile == requestTileData(columns.tile, tile_resp) IN
    IF tile.exc # ""
    THEN [exc |-> tile.exc, val |-> 0, tile_sent |-> tile.sent,
          segment_sent |-> FALSE]
    ELSE IF tile.val # -1
    THEN [exc |-> "", val |-> tile.val, tile_sent |-> tile.sent,
          segment_sent |-> FALSE]
    ELSE LET segment == requestSegmentData(columns, speed_type, segment_resp) IN
    IF segment.exc # ""
    THEN [exc |-> segment.exc, val |-> 0, tile_sent |-> tile.sent,
          segment_sent |-> segment.sent]
    ELSE [exc |-> "",
          val |-> IF segment.val = -1 /\ fail_with_zero THEN 0 ELSE segment.val,
          tile_sent |-> tile.sent, segment_sent |-> segment.sent]

\* A plausible slip: the speed is recorded for the entry's own LED only.
PairsOf_OwnLed(leds, speed) == <<<<leds[1], speed>>>>

\* Lines 483-484: one (LED number, speed) pair for every LED of the entry.
PairsOf(leds, speed) == [k \in 1..Len(leds) |-> <<leds[k], speed>>]

\* The requests the call for target k has sent, the tile request first.
SentFor(k, outcome) ==
    (IF outcome.tile_sent THEN <<[target |-> k, source |-> "tile"]>> ELSE <<>>)
    \o (IF outcome.segment_sent
        THEN <<[target |-> k, source |-> "segment"]>>
        ELSE <<>>)

\* Lines 470-485: the loop of requestSpeeds from target k on.  answers[k]
\* holds the columns of target k's entry and what the two endpoints answer
\* when asked for it; acc holds ret and the requests sent so far.
RECURSIVE SpeedsFrom(_, _, _, _, _, _)
SpeedsFrom(entry_led_pairs, k, speed_type, fail_with_zero, answers, acc) ==
    IF k > Len(entry_led_pairs)
    THEN acc
    ELSE LET pair == entry_led_pairs[k]
             outcome == SpeedOfEntry(pair.entry, answers[k].columns, speed_type,
                                     fail_with_zero, answers[k].tile,
                                     answers[k].segment)
             sent == acc.requests \o SentFor(k, outcome)
         IN  IF outcome.exc # ""
             THEN [exc |-> outcome.exc, ret |-> <<>>, requests |-> sent]
             ELSE SpeedsFrom(entry_led_pairs, k + 1, speed_type, fail_with_zero,
                             answers,
                             [exc |-> "",
                              ret |-> acc.ret \o PairsOf(pair.leds, outcome.val),
                              requests |-> sent])

\* A plausible slip: the tiles carry the current flow, so for a TYPICAL
\* request the tile source is passed over and the segment source is asked.
requestSpeeds_TypicalBySegment(entry_led_pairs, speed_type, fail_with_zero, answers) ==
    IF speed_type = UNKNOWN
    THEN [exc |-> "TypeError", ret |-> <<>>, requests |-> <<>>]
    ELSE SpeedsFrom(entry_led_pairs, 1, speed_type, fail_with_zero,
                    [k \in DOMAIN answers |->
                        IF speed_type = TYPICAL
                        THEN [answers[k] EXCEPT !.columns.tile = NoTile]
                        ELSE answers[k]],
                    [exc |-> "", ret |-> <<>>, requests |-> <<>>])

\* requestSpeeds(entry_led_pairs, speed_type, api_key, fail_with_zero).  The
\* guard of line 465 raises a tuple, which is a TypeError.
requestSpeeds(entry_led_pairs, speed_type, fail_with_zero, answers) ==
    IF speed_type = UNKNOWN
    THEN [exc |-> "TypeError", ret |-> <<>>, requests |-> <<>>]
    ELSE SpeedsFrom(entry_led_pairs, 1, speed_type, fail_with_zero, answers,
                    [exc |-> "", ret |-> <<>>, requests |-> <<>>])

\* ------------------------------------------------------------------------
\* The artifacts
\* ------------------------------------------------------------------------

\* A plausible slip: the list is written as requestSpeeds built it.
SortedByLed_AsBuilt(pairs) == pairs

\* sorted(speeds, key=lambda ele: ele[0]): a stable sort on the LED number.
RECURSIVE SortedByLed(_)
SortedByLed(pairs) ==
    IF pairs = <<>>
    THEN <<>>
    ELSE LET k == CHOOSE i \in 1..Len(pairs) :
                     /\ \A j \in 1..Len(pairs) : pairs[i][1] <= pairs[j][1]
                     /\ \A j \in 1..(i - 1) : pairs[j][1] # pairs[i][1]
         IN  <<pairs[k]>> \o
             SortedByLed([j \in 1..(Len(pairs) - 1) |->
                             IF j < k THEN pairs[j] ELSE pairs[j + 1]])

\* Lines 564-566: the values handed to bytearray.
RawSpeeds(speeds) ==
    LET sorted == SortedByLed(speeds)
        raw_speeds == [k \in 1..Len(sorted) |->
                          IF sorted[k][2] # -1 THEN sorted[k][2] ELSE 0]
    IN  <<0>> \o raw_speeds

\* bytearray(raw_speeds) raises ValueError unless every value is a byte.
IsByteArray(raw_speeds) ==
    \A k \in 1..Len(raw_speeds) : raw_speeds[k] \in 0..255

\* A file is absent, or holds its lines (its bytes for a binary file).
NoFile == [exists |-> FALSE, data |-> <<>>]
File(data) == [exists |-> TRUE, data |-> data]

\* A plausible slip: the file is opened 'wb' whether or not it exists, which
\* empties an existing file.
ensure_file_exists_Truncating(file) == File(<<>>)

\* ensure_file_exists with the default content "".
ensure_file_exists(file) == IF ~file.exists THEN File(<<>>) ELSE file

\* The lines of the text artifacts.
RowLine(pair) == [kind |-> "row", led |-> pair[1], speed |-> pair[2]]
MetaLine == [kind |-> "{prev_addendum_url}", led |-> 0, speed |-> 0]
BlankLine == [kind |-> "", led |-> 0, speed |-> 0]

\* csv_writer.writerows(speeds)
RowLines(speeds) == [k \in 1..Len(speeds) |-> RowLine(speeds[k])]

\* A plausible slip: the rows follow the metadata line at once.
AddendumLines_NoBlankLine(speeds) == <<MetaLine>> \o RowLines(speeds)

\* Lines 518-520: what createAddendum writes.
AddendumLines(speeds) == <<MetaLine, BlankLine>> \o RowLines(speeds)

\* ------------------------------------------------------------------------
\* State
\* ------------------------------------------------------------------------

VARIABLES
    csv_reader,       \* the reader handed whole to pruneCSVEntries
    direction,        \* the direction argument
    allow_missing,    \* the allow_missing argument of pruneCSVEntries
    pruned,           \* the outcome of the last call of pruneCSVEntries
    speed_type,       \* the speed_type argument of main
    output_2,         \* whether main is given an output_2_relpath
    pc,               \* where the run of main stands
    phase,            \* "main", or "addendum" inside createAddendum
    st,               \* the locals of pruneCSVEntries while it reads rows
    nread,            \* the number of rows read from the open table
    entry_leds_pairs, \* the list requestSpeeds works through
    next_pair,        \* the position of requestSpeeds in that list
    speeds,           \* the list requestSpeeds builds, then main's speeds
    requests,         \* the requests sent to the endpoints, in order
    csvFile,          \* the delimited-text artifact
    binFile,          \* the binary artifact
    addFile,          \* the addendum artifact
    result,           \* what main returned, "" while it runs
    caught,           \* the exception caught by main and by createAddendum
    faults,           \* the file operations that failed
    old,              \* whether the artifacts exist when main is called
    written,          \* the artifacts written since main was called
    call              \* a function called on its own: arguments and outcome

prune_vars == <<csv_reader, direction, allow_missing, pruned>>

run_vars ==
    <<speed_type, output_2, pc, phase, st, nread, entry_leds_pairs, next_pair,
      speeds, requests, csvFile, binFile, addFile, result, caught, faults,
      old, written>>

vars == <<prune_vars, run_vars, call>>

\* No function is called on its own.
NoCall == [fn |-> ""]

NoException == [type |-> "", at |-> "", log |-> <<>>]

\* ------------------------------------------------------------------------
\* pruneCSVEntries called on a whole table
\* ------------------------------------------------------------------------

\* Tables of at most n rows.  pruneCSVEntries reads no column but
\* 'Direction', 'LED Number' and 'Reference': 'Freeway' is the same in all
\* the rows.
RECURSIVE Tables(_)
Tables(n) ==
    IF n = 0
    THEN {<<>>}
    ELSE LET shorter == Tables(n - 1)
         IN  shorter \cup
             {Append(t, e) : t \in {s \in shorter : Len(s) = n - 1},
                             e \in {x \in Entries : x.freeway = "101"}}

\* No run of main is going on.
NoRun ==
    /\ speed_type = CURRENT
    /\ output_2 = TRUE
    /\ pc = "done"
    /\ phase = "main"
    /\ st = EmptyScan
    /\ nread = 0
    /\ entry_leds_pairs = <<>>
    /\ next_pair = 1
    /\ speeds = <<>>
    /\ requests = <<>>
    /\ csvFile = NoFile
    /\ binFile = NoFile
    /\ addFile = NoFile
    /\ result = ""
    /\ caught = [main |-> NoException, addendum |-> NoException]
    /\ faults = {}
    /\ old = FALSE
    /\ written = {}

InitPrune ==
    /\ csv_reader \in {NoReader} \cup {Reader(t) : t \in Tables(MaxRows)}
    /\ direction \in Direction
    /\ allow_missing \in BOOLEAN
    /\ pruned = <<>>
    /\ NoRun
    /\ call = NoCall

PruneCall ==
    /\ pruned = <<>>
    /\ pruned' = <<pruneCSVEntries(csv_reader, direction, allow_missing)>>
    /\ UNCHANGED <<csv_reader, direction, allow_missing, run_vars, call>>

NextPrune == PruneCall

SpecPrune == InitPrune /\ [][NextPrune]_vars

\* ------------------------------------------------------------------------
\* A run of main
\* ------------------------------------------------------------------------

\* Number of rows a table read during a run can have.
RunRows == 2

\* The rows of the tables read during a run: a Reference is blank or the
\* numeral of an LED number.
RunEntries == {e \in Entries : e.ref \in {""} \cup (Numerals \ {"0"})}

\* What the artifacts hold from an earlier run.
OldCsv == File(<<RowLine(<<1, 7>>)>>)
OldBin == File(<<0, 7>>)
OldAdd == File(AddendumLines(<<<<1, 7>>>>))

\* The Tile, Latitude, Longitude and openLr Code columns of an entry.  They
\* are read by requestSpeeds only, once for an entry, and are drawn there.
GoodColumns ==
    [tile |-> <<"14", "2790", "6540">>, lat |-> "34.42", lon |-> "-119.70",
     openlr |-> "CwRbWyNG9RpsCQCb"]

RunColumns == {GoodColumns}

\* A decoded tile of one layer and one feature whose traffic level is the
\* double x.
TileOf(x) ==
    [layers |-> <<[features |-> <<[tags |-> <<0, 0, 1, 1>>]>>,
                   keys |-> <<"road_type", "traffic_level">>,
                   values |-> <<[type |-> "string", double |-> 0],
                                [type |-> "double", double |-> x]>>]>>]

NoTileDecoded == [layers |-> <<>>]

\* The answers of the tile endpoint drawn during a run.
TileResponses ==
    {[kind |-> "exception", tile |-> NoTileDecoded],
     [kind |-> "status", tile |-> NoTileDecoded],
     [kind |-> "undecodable", tile |-> NoTileDecoded],
     [kind |-> "tile", tile |-> NoTileDecoded],
     [kind |-> "tile", tile |-> TileOf(64)]}

\* A flowSegmentData object.
SegmentOf(closure, current, free, openlr) ==
    [roadClosure |-> closure, currentSpeed |-> current, freeFlowSpeed |-> free,
     openlr |-> openlr]

NoSegment == SegmentOf(Absent, Absent, Absent, Absent)

\* The answers of the segment endpoint drawn during a run.
SegmentResponses ==
    {[kind |-> "exception", data |-> NoSegment],
     [kind |-> "status", data |-> NoSegment],
     [kind |-> "undecodable", data |-> NoSegment],
     [kind |-> "json", data |-> NoSegment],
     [kind |-> "json",
      data |-> SegmentOf(Absent, JsonNumber(30), JsonNumber(50),
                         JsonString(GoodColumns.openlr))],
     [kind |-> "json",
      data |-> SegmentOf(Absent, JsonString("fast"), JsonNull,
                         JsonString(GoodColumns.openlr))]}

Init ==
    /\ csv_reader = NoReader
    /\ direction \in Direction
    /\ allow_missing = FALSE
    /\ pruned = <<>>
    /\ speed_type \in {CURRENT, TYPICAL}
    /\ output_2 \in BOOLEAN
    /\ pc = "main"
    /\ phase = "main"
    /\ st = EmptyScan
    /\ nread = 0
    /\ entry_leds_pairs = <<>>
    /\ next_pair = 1
    /\ speeds = <<>>
    /\ requests = <<>>
    /\ old \in BOOLEAN
    /\ csvFile = (IF old THEN OldCsv ELSE NoFile)
    /\ binFile = (IF old THEN OldBin ELSE NoFile)
    /\ addFile = (IF old THEN OldAdd ELSE NoFile)
    /\ result = ""
    /\ caught = [main |-> NoException, addendum |-> NoException]
    /\ faults = {}
    /\ written = {}
    /\ call = NoCall

\* The locals of main or createAddendum go out of scope.
ClearLocals ==
    /\ st' = EmptyScan
    /\ nread' = 0
    /\ entry_leds_pairs' = <<>>
    /\ next_pair' = 1
    /\ speeds' = <<>>

\* A plausible slip: createAddendum has no try of its own, so that its
\* exceptions reach the except clause of main.
Except_ReachesMain(type, at, log) ==
    /\ caught' = [caught EXCEPT !.main = [type |-> type, at |-> at, log |-> log]]
    /\ result' = "False"
    /\ pc' = "done"
    /\ ClearLocals

\* An exception reaches the except clause of main (lines 581-583: main
\* returns False), or that of createAddendum (lines 521-523: createAddendum
\* returns, main goes on to lines 579-580 and returns True).
Except(type, at, log) ==
    /\ caught' = [caught EXCEPT ![phase] = [type |-> type, at |-> at, log |-> log]]
    /\ result' = IF phase = "main" THEN "False" ELSE "True"
    /\ pc' = "done"
    /\ ClearLocals

\* Lines 530-544: the direction guard, the file paths and the output files.
MainStart ==
    /\ pc = "main"
    /\ IF direction = UNKNOWN
       THEN /\ result' = "False"
            /\ pc' = "done"
            /\ UNCHANGED <<csvFile, binFile>>
       ELSE IF ~output_2
       THEN \* line 537 adds None to a str: TypeError, outside the try
            /\ result' = "TypeError"
            /\ pc' = "done"
            /\ UNCHANGED <<csvFile, binFile>>
       ELSE /\ csvFile' = ensure_file_exists(csvFile)
            /\ binFile' = ensure_file_exists(binFile)
            /\ pc' = "open"
            /\ UNCHANGED result
    /\ UNCHANGED <<prune_vars, call, speed_type, output_2, phase, st, nread,
                   entry_leds_pairs, next_pair, speeds, requests, addFile,
                   caught, faults, old, written>>

\* Lines 548-550 and 507-509: the table is opened and pruneCSVEntries is
\* called on its reader, or open raises.
OpenInput ==
    /\ pc = "open"
    /\ \/ /\ allow_missing' = (phase = "addendum")
          /\ pc' = "scan"
          /\ UNCHANGED <<st, nread, entry_leds_pairs, next_pair, speeds,
                         result, caught, faults>>
       \/ /\ Except("OSError", "open", <<>>)
          /\ faults' = faults \cup {<<phase, "open">>}
          /\ UNCHANGED allow_missing
    /\ UNCHANGED <<csv_reader, direction, pruned, call, speed_type, output_2, phase,
                   requests, csvFile, binFile, addFile, old, written>>

\* One iteration of the loop of pruneCSVEntries over the reader.
ReadRow ==
    /\ pc = "scan"
    /\ nread < RunRows
    /\ \E entry \in RunEntries : st' = ScanEntry(st, entry, direction)
    /\ nread' = nread + 1
    /\ UNCHANGED <<prune_vars, call, speed_type, output_2, pc, phase,
                   entry_leds_pairs, next_pair, speeds, requests, csvFile,
                   binFile, addFile, result, caught, faults, old, written>>

\* A plausible slip: the failure of the checks is recorded but the entries
\* read are handed to requestSpeeds all the same (fetch, then validate).
EndOfInput_FetchAnyway ==
    /\ pc = "scan"
    /\ LET outcome == CheckEntries(st, allow_missing) IN
          /\ caught' = IF outcome.exc # ""
                       THEN [caught EXCEPT ![phase] =
                                [type |-> outcome.exc, at |-> "pruneCSVEntries",
                                 log |-> outcome.log]]
                       ELSE caught
          /\ entry_leds_pairs' = ExtendTargets(st.ret, st.ref_to_leds)
          /\ pc' = "request"
          /\ UNCHANGED <<st, nread, next_pair, speeds, result>>
    /\ UNCHANGED <<prune_vars, call, speed_type, output_2, phase, requests, csvFile,
                   binFile, addFile, faults, old, written>>

\* The reader is exhausted: pruneCSVEntries makes its checks and raises or
\* returns; on return requestSpeeds is called with the list (lines 551, 510).
EndOfInput ==
    /\ pc = "scan"
    /\ LET outcome == CheckEntries(st, allow_missing) IN
          IF outcome.exc # ""
          THEN Except(outcome.exc, "pruneCSVEntries", outcome.log)
          ELSE /\ entry_leds_pairs' = outcome.ret
               /\ pc' = "request"
               /\ UNCHANGED <<st, nread, next_pair, speeds, result, caught>>
    /\ UNCHANGED <<prune_vars, call, speed_type, output_2, phase, requests, csvFile,
                   binFile, addFile, faults, old, written>>

\* The requests a call for one entry has sent.
Sent(entry, outcome) ==
    (IF outcome.tile_sent
     THEN <<[phase |-> phase, source |-> "tile", led |-> entry.led]>>
     ELSE <<>>)
    \o (IF outcome.segment_sent
        THEN <<[phase |-> phase, source |-> "segment", led |-> entry.led]>>
        ELSE <<>>)

\* One iteration of the loop of requestSpeeds (lines 471-484); main and
\* createAddendum both pass fail_with_zero=False.
RequestSpeed ==
    /\ pc = "request"
    /\ next_pair <= Len(entry_leds_pairs)
    /\ \E columns \in RunColumns, tile_resp \in TileResponses,
          segment_resp \in SegmentResponses :
          LET pair == entry_leds_pairs[next_pair]
              outcome == SpeedOfEntry(pair.entry, columns, speed_type, FALSE,
                                      tile_resp, segment_resp)
          IN  /\ requests' = requests \o Sent(pair.entry, outcome)
              /\ IF outcome.exc # ""
                 THEN Except(outcome.exc, "requestSpeeds", <<>>)
                 ELSE /\ speeds' = speeds \o PairsOf(pair.leds, outcome.val)
                      /\ next_pair' = next_pair + 1
                      /\ UNCHANGED <<pc, st, nread, entry_leds_pairs, result,
                                     caught>>
    /\ UNCHANGED <<prune_vars, call, speed_type, output_2, phase, csvFile, binFile,
                   addFile, faults, old, written>>

\* Lines 551-561: requestSpeeds returns its list to main, which sorts it and
\* writes the delimited-text artifact.
WriteCsv ==
    /\ pc = "request"
    /\ phase = "main"
    /\ next_pair > Len(entry_leds_pairs)
    /\ speeds' = SortedByLed(speeds)
    /\ csvFile' = File(RowLines(speeds'))
    /\ written' = written \cup {"csv"}
    /\ pc' = "write_bin"
    /\ UNCHANGED <<prune_vars, call, speed_type, output_2, phase, st, nread,
                   entry_leds_pairs, next_pair, requests, binFile, addFile,
                   result, caught, faults, old>>

\* Lines 564-573: the byte array is built and written; an error of the
\* write itself is logged and main goes on.
WriteBinary ==
    /\ pc = "write_bin"
    /\ LET raw_speeds == RawSpeeds(speeds) IN
          IF ~IsByteArray(raw_speeds)
          THEN /\ Except("ValueError", "bytearray", <<>>)
               /\ UNCHANGED <<binFile, faults, written>>
          ELSE /\ \/ /\ binFile' = File(raw_speeds)
                     /\ written' = written \cup {"bin"}
                     /\ UNCHANGED faults
                  \/ /\ faults' = faults \cup {<<phase, "binary">>}
                     /\ UNCHANGED <<binFile, written>>
               /\ pc' = "addendum"
               /\ UNCHANGED <<st, nread, entry_leds_pairs, next_pair, speeds,
                              result, caught>>
    /\ UNCHANGED <<prune_vars, call, speed_type, output_2, phase, requests, csvFile,
                   addFile, old>>

\* Line 577: main calls createAddendum.
CallAddendum ==
    /\ pc = "addendum"
    /\ phase' = "addendum"
    /\ pc' = "open"
    /\ ClearLocals
    /\ UNCHANGED <<prune_vars, call, speed_type, output_2, requests, csvFile,
                   binFile, addFile, result, caught, faults, old, written>>

\* Lines 510-520 and 579-580: requestSpeeds returns its list to
\* createAddendum, which writes the addendum artifact and returns; main
\* returns True.  Or the write fails (lines 516-520): open raises and the
\* file is as it was or as ensure_file_exists left it, or a write raises
\* after open has emptied the file.
WriteAddendum ==
    /\ pc = "request"
    /\ phase = "addendum"
    /\ next_pair > Len(entry_leds_pairs)
    /\ \/ /\ addFile' = File(AddendumLines(speeds))
          /\ result' = "True"
          /\ pc' = "done"
          /\ written' = written \cup {"add"}
          /\ ClearLocals
          /\ UNCHANGED <<caught, faults>>
       \/ /\ Except("OSError", "write", <<>>)
          /\ faults' = faults \cup {<<phase, "write">>}
          /\ addFile' \in {addFile, ensure_file_exists(addFile), File(<<>>)}
          /\ UNCHANGED written
    /\ UNCHANGED <<prune_vars, call, speed_type, output_2, phase, requests, csvFile,
                   binFile, old>>

Next ==
    \/ MainStart
    \/ OpenInput
    \/ ReadRow
    \/ EndOfInput
    \/ RequestSpeed
    \/ WriteCsv
    \/ WriteBinary
    \/ CallAddendum
    \/ WriteAddendum

Spec == Init /\ [][Next]_vars

\* ------------------------------------------------------------------------
\* requestSpeeds called on a list of targets
\* ------------------------------------------------------------------------

\* The columns of an entry: all valid, no tile, neither tile nor openLR code.
SpeedColumns ==
    {GoodColumns,
     [GoodColumns EXCEPT !.tile = NoTile],
     [GoodColumns EXCEPT !.tile = NoTile, !.openlr = NoColumn]}

\* What is drawn for one target: its columns and the two answers.
Answers ==
    [columns : SpeedColumns, tile : TileResponses, segment : SegmentResponses]

\* The targets of a list: one of LED 1, alone or with LED 3 aliasing it, and
\* one of LED 2.
FirstTargets ==
    {[entry |-> e, leds |-> l] :
        e \in {x \in Entries : x.led = 1 /\ x.dir = "North" /\ x.ref = ""},
        l \in {<<1>>, <<1, 3>>}}

SecondTargets ==
    {[entry |-> e, leds |-> <<2>>] :
        e \in {x \in Entries : x.led = 2 /\ x.dir = "North" /\ x.ref = ""}}

TargetLists ==
    {<<t>> : t \in FirstTargets}
        \cup {<<t, u>> : t \in FirstTargets, u \in SecondTargets}

InitSpeeds ==
    /\ csv_reader = NoReader
    /\ direction = NORTH
    /\ allow_missing = FALSE
    /\ pruned = <<>>
    /\ NoRun
    /\ \E pairs \in TargetLists, type \in {CURRENT, TYPICAL}, zero \in BOOLEAN :
          \E answers \in [1..Len(pairs) -> Answers] :
             call = [fn |-> "requestSpeeds", entry_led_pairs |-> pairs,
                     speed_type |-> type, fail_with_zero |-> zero,
                     answers |-> answers, out |-> <<>>]

SpeedsCall ==
    /\ call.fn = "requestSpeeds"
    /\ call.out = <<>>
    /\ call' = [call EXCEPT !.out =
                    <<requestSpeeds(call.entry_led_pairs, call.speed_type,
                                    call.fail_with_zero, call.answers)>>]
    /\ UNCHANGED <<prune_vars, run_vars>>

NextSpeeds == SpeedsCall

SpecSpeeds == InitSpeeds /\ [][NextSpeeds]_vars

\* ------------------------------------------------------------------------
\* requestTileData called on a tile identifier and an answer
\* ------------------------------------------------------------------------

\* Greatest number of tags of a feature.
MaxTags == 3

\* Greatest length of the key table and of the value table of a layer; the
\* tags range over 0..MaxTable.
MaxTable == 2

\* The sequences over S of length at most n.
RECURSIVE SeqsUpTo(_, _)
SeqsUpTo(S, n) ==
    IF n = 0
    THEN {<<>>}
    ELSE LET shorter == SeqsUpTo(S, n - 1)
         IN  shorter \cup
             {Append(t, e) : t \in {x \in shorter : Len(x) = n - 1}, e \in S}

\* The traffic levels of the tiles, in km/h.
Doubles == {-2, 0, 1, 4, 64}

\* A value of a layer: a string_value, or a double_value.
TileValues ==
    {[type |-> "string", double |-> 0]}
        \cup {[type |-> "double", double |-> x] : x \in Doubles}

Features == [tags : SeqsUpTo(0..MaxTable, MaxTags)]

GoodLayer == TileOf(64).layers[1]

GoodFeature == GoodLayer.features[1]

\* No feature, one feature, two features.
FeatureLists ==
    {<<>>} \cup {<<f>> : f \in Features} \cup {<<f, GoodFeature>> : f \in Features}

Layers ==
    [features : FeatureLists,
     keys : SeqsUpTo({"road_type", "traffic_level"}, MaxTable),
     values : SeqsUpTo(TileValues, MaxTable)]

\* A decoded tile of no layer, of the one layer, or of two layers.
TileWith(count, layer) ==
    IF count = 0 THEN NoTileDecoded
    ELSE IF count = 1 THEN [layers |-> <<layer>>]
    ELSE [layers |-> <<layer, GoodLayer>>]

\* 'Tile' columns: None, and identifiers of no, one, two and three '/'.
TileColumns ==
    {NoTile, <<"">>, <<"14", "2790">>, GoodColumns.tile,
     <<"14", "2790", "6540", "0">>}

\* The answer of the tile endpoint: of a kind other than "tile", or the
\* given tile.
TileAnswer(kind, tile) ==
    [kind |-> kind, tile |-> IF kind = "tile" THEN tile ELSE NoTileDecoded]

InitTile ==
    /\ csv_reader = NoReader
    /\ direction = NORTH
    /\ allow_missing = FALSE
    /\ pruned = <<>>
    /\ NoRun
    /\ \E column \in TileColumns, layer \in Layers, count \in 0..2,
          kind \in {"exception", "status", "undecodable", "tile"} :
          call = [fn |-> "requestTileData", tile_column |-> column,
                  resp |-> TileAnswer(kind, TileWith(count, layer)),
                  out |-> <<>>]

TileCall ==
    /\ call.fn = "requestTileData"
    /\ call.out = <<>>
    /\ call' = [call EXCEPT !.out = <<requestTileData(call.tile_column, call.resp)>>]
    /\ UNCHANGED <<prune_vars, run_vars>>

NextTile == TileCall

SpecTile == InitTile /\ [][NextTile]_vars

\* ------------------------------------------------------------------------
\* requestSegmentData called on an entry's columns and an answer
\* ------------------------------------------------------------------------

\* The columns of an entry: all valid, a blank openLR code, no openLR code,
\* no latitude.
SegmentColumns ==
    {GoodColumns,
     [GoodColumns EXCEPT !.openlr = ""],
     [GoodColumns EXCEPT !.openlr = NoColumn],
     [GoodColumns EXCEPT !.lat = NoColumn]}

\* The members of the flowSegmentData objects.
ClosureMembers ==
    {Absent, JsonBool(TRUE), JsonBool(FALSE), JsonString("true"),
     JsonString("false")}

CurrentSpeedMembers ==
    {Absent, JsonNumber(30), JsonNumber(-1), JsonString("fast"), JsonNull}

FreeFlowSpeedMembers == {Absent, JsonNumber(50), JsonNull}

OpenlrMembers ==
    {Absent, JsonString(GoodColumns.openlr), JsonString("CwRbWyNG9RpsCQCc")}

SegmentAnswers ==
    {[kind |-> "exception", data |-> NoSegment],
     [kind |-> "status", data |-> NoSegment],
     [kind |-> "undecodable", data |-> NoSegment],
     [kind |-> "array", data |-> NoSegment]}
        \cup {[kind |-> "json", data |-> SegmentOf(closure, current, free, openlr)] :
                 closure \in ClosureMembers, current \in CurrentSpeedMembers,
                 free \in FreeFlowSpeedMembers, openlr \in OpenlrMembers}

InitSegment ==
    /\ csv_reader = NoReader
    /\ direction = NORTH
    /\ allow_missing = FALSE
    /\ pruned = <<>>
    /\ NoRun
    /\ \E columns \in SegmentColumns, type \in {CURRENT, TYPICAL},
          resp \in SegmentAnswers :
          call = [fn |-> "requestSegmentData", columns |-> columns,
                  speed_type |-> type, resp |-> resp, out |-> <<>>]

SegmentCall ==
    /\ call.fn = "requestSegmentData"
    /\ call.out = <<>>
    /\ call' = [call EXCEPT !.out =
                    <<requestSegmentData(call.columns, call.speed_type, call.resp)>>]
    /\ UNCHANGED <<prune_vars, run_vars>>

NextSegment == SegmentCall

SpecSegment == InitSegment /\ [][NextSegment]_vars

\* ------------------------------------------------------------------------
\* The legacy script fetch_tomtom_two: a run of its main
\* ------------------------------------------------------------------------

\* Number of rows the table read by the legacy script can have.
TwoRows == 2

\* A line the legacy script writes to the log.
two_Line(kind, led_num) == [kind |-> kind, led |-> led_num]

\* int(entry.get("Reference", -1)) inside its try: -1 when int() raises.
two_Reference(entry) ==
    IF ParseInt(entry.ref) = <<>> THEN -1 ELSE ParseInt(entry.ref)[1]

\* The locals of the legacy requestSpeeds before the first row is read.
\* led_to_entry is a dict in insertion order: a sequence of items, each an
\* LED number with its entry and the entry's internal_row_num.
two_EmptyScan ==
    [led_to_entry |-> <<>>, max_led_num |-> 0, bad_locations |-> FALSE,
     log |-> <<>>]

two_HasLed(led_to_entry, n) ==
    \E j \in 1..Len(led_to_entry) : led_to_entry[j].led = n

two_EntryOf(led_to_entry, n) ==
    led_to_entry[CHOOSE j \in 1..Len(led_to_entry) : led_to_entry[j].led = n]

\* One iteration of the loop over the reader.
two_ScanEntry(s, entry, row_num, dir) ==
    IF entry.dir = "North" /\ dir = SOUTH
    THEN s
    ELSE IF entry.dir = "South" /\ dir = NORTH
    THEN s
    ELSE LET t == [s EXCEPT !.max_led_num =
                                IF entry.led > @ THEN entry.led ELSE @]
         IN  IF two_HasLed(s.led_to_entry, entry.led)
             THEN [t EXCEPT !.log = Append(@, two_Line("duplicate", entry.led)),
                            !.bad_locations = TRUE]
             ELSE [t EXCEPT !.led_to_entry =
                                Append(@, [led |-> entry.led, row_num |-> row_num,
                                           entry |-> entry])]

\* The loop over enumerate(csv_reader) from row i on; row numbers start at 0.
RECURSIVE two_ScanFrom(_, _, _, _)
two_ScanFrom(s, rows, i, dir) ==
    IF i > Len(rows)
    THEN s
    ELSE two_ScanFrom(two_ScanEntry(s, rows[i], i - 1, dir), rows, i + 1, dir)

\* The LED numbers of range(1, max_led_num + 1) that have no entry.
two_MissingLeds(led_to_entry, max_led_num) ==
    SelectSeq([n \in 1..max_led_num |-> n],
              LAMBDA n : ~two_HasLed(led_to_entry, n))

\* entry_to_leds is a dict in insertion order, keyed by internal_row_num:
\* led_num is appended to the list of the key, which is added when new.
two_AddLed(entry_to_leds, row_num, led_num) ==
    IF \E j \in 1..Len(entry_to_leds) : entry_to_leds[j].row_num = row_num
    THEN [j \in 1..Len(entry_to_leds) |->
             IF entry_to_leds[j].row_num = row_num
             THEN [entry_to_leds[j] EXCEPT !.leds = Append(@, led_num)]
             ELSE entry_to_leds[j]]
    ELSE Append(entry_to_leds, [row_num |-> row_num, leds |-> <<led_num>>])

\* The loop of decodeReferences from item i of led_to_entry on.  Every row
\* of the tables carries its coordinates, so validEntry holds of every entry.
RECURSIVE two_DecodeFrom(_, _, _, _)
two_DecodeFrom(led_to_entry, max_led_num, i, acc) ==
    IF i > Len(led_to_entry)
    THEN acc
    ELSE LET item == led_to_entry[i]
             reference == two_Reference(item.entry)
             double_ref ==
                 IF two_HasLed(led_to_entry, reference)
                 THEN two_Reference(two_EntryOf(led_to_entry, reference).entry)
                 ELSE -1
             invalid ==
                 /\ reference # -1
                 /\ \/ reference <= 0
                    \/ reference > max_led_num
                    \/ double_ref # -1
             target == IF reference = -1
                       THEN item
                       ELSE two_EntryOf(led_to_entry, reference)
         IN  two_DecodeFrom(led_to_entry, max_led_num, i + 1,
                 IF invalid
                 THEN [acc EXCEPT !.bad_references = TRUE,
                                  !.log = Append(@, two_Line("invalid reference",
                                                             item.led))]
                 ELSE [acc EXCEPT !.entry_to_leds =
                                      two_AddLed(@, target.row_num, item.led)])

\* decodeReferences: bad_references stands for the return value None.
two_decodeReferences(led_to_entry, max_led_num) ==
    two_DecodeFrom(led_to_entry, max_led_num, 1,
                   [entry_to_leds |-> <<>>, bad_references |-> FALSE,
                    log |-> <<>>])

\* The legacy requestSpeeds up to its loop of requests: it returns False
\* (aborted) on bad locations or bad references, else it goes on with the
\* targets of entry_to_leds.
two_CheckInput(rows, dir) ==
    LET s == two_ScanFrom(two_EmptyScan, rows, 1, dir)
        missing == two_MissingLeds(s.led_to_entry, s.max_led_num)
        log == s.log \o [j \in 1..Len(missing) |-> two_Line("missing", missing[j])]
    IN  IF s.bad_locations \/ Len(missing) > 0
        THEN [aborted |-> TRUE, targets |-> <<>>, max_led_num |-> s.max_led_num,
              log |-> Append(log, two_Line("abort: bad location entries", 0))]
        ELSE LET d == two_decodeReferences(s.led_to_entry, s.max_led_num)
             IN  IF d.bad_references
                 THEN [aborted |-> TRUE, targets |-> <<>>,
                       max_led_num |-> s.max_led_num,
                       log |-> Append(log \o d.log,
                                      two_Line("abort: bad references", 0))]
                 ELSE [aborted |-> FALSE, targets |-> d.entry_to_leds,
                       max_led_num |-> s.max_led_num, log |-> log]

\* bytearray(speeds): requestSpeeds has returned its list, or False, and
\* bytearray(False) is the empty byte array.
two_ByteArray(aborted, list) == IF aborted THEN <<>> ELSE list

\* What requestData gives for a target: the failure value or a speed.
TwoSpeeds == {-1, 40}

\* main of the legacy script is called on a table, for a direction, with or
\* without a second output file; both output files hold the bytes of an
\* earlier run.
InitTwo ==
    /\ csv_reader = NoReader
    /\ direction = NORTH
    /\ allow_missing = FALSE
    /\ pruned = <<>>
    /\ NoRun
    /\ \E rows \in Tables(TwoRows), dir \in Direction, second \in BOOLEAN :
          call = [fn |-> "fetch_tomtom_two.main", rows |-> rows,
                  direction |-> dir, output_filename_2 |-> second,
                  pc |-> "main", aborted |-> FALSE, targets |-> <<>>,
                  next |-> 1, speeds |-> <<>>, log |-> <<>>,
                  file1 |-> OldBin, file2 |-> OldBin, result |-> ""]

\* main up to the loop of requests of requestSpeeds: the direction guard,
\* then the table is read and checked.
two_MainStart ==
    /\ call.fn = "fetch_tomtom_two.main"
    /\ call.pc = "main"
    /\ IF call.direction = UNKNOWN
       THEN call' = [call EXCEPT !.log = Append(@, two_Line("invalid direction", 0)),
                                 !.result = "False",
                                 !.pc = "done"]
       ELSE LET checked == two_CheckInput(call.rows, call.direction)
            IN  call' = [call EXCEPT
                            !.aborted = checked.aborted,
                            !.targets = checked.targets,
                            !.log = checked.log,
                            !.speeds = IF checked.aborted
                                       THEN <<>>
                                       ELSE [i \in 1..(checked.max_led_num + 1) |-> -1],
                            !.pc = IF checked.aborted THEN "write" ELSE "request"]
    /\ UNCHANGED <<prune_vars, run_vars>>

\* One iteration of the loop of requests: requestData gives a speed or the
\* failure value, or raises and main's except clause returns False.
two_RequestData ==
    /\ call.fn = "fetch_tomtom_two.main"
    /\ call.pc = "request"
    /\ call.next <= Len(call.targets)
    /\ \/ \E speed \in TwoSpeeds :
             LET leds == call.targets[call.next].leds
                 hit(i) == \E j \in 1..Len(leds) : leds[j] = i - 1
             IN  call' = [call EXCEPT
                             !.speeds = IF speed = -1
                                        THEN call.speeds
                                        ELSE [i \in 1..Len(call.speeds) |->
                                                 IF hit(i) THEN speed
                                                 ELSE call.speeds[i]],
                             !.next = @ + 1]
       \/ call' = [call EXCEPT !.log = Append(@, two_Line("error", 0)),
                               !.result = "False",
                               !.pc = "done"]
    /\ UNCHANGED <<prune_vars, run_vars>>

\* requestSpeeds replaces the negative values with 0 and returns its list.
two_ReturnSpeeds ==
    /\ call.fn = "fetch_tomtom_two.main"
    /\ call.pc = "request"
    /\ call.next > Len(call.targets)
    /\ call' = [call EXCEPT
                   !.speeds = [i \in 1..Len(call.speeds) |->
                                  IF call.speeds[i] < 0 THEN 0 ELSE call.speeds[i]],
                   !.pc = "write"]
    /\ UNCHANGED <<prune_vars, run_vars>>

\* main builds the byte array from what requestSpeeds returned and writes
\* the first output file.
two_WriteFirst ==
    /\ call.fn = "fetch_tomtom_two.main"
    /\ call.pc = "write"
    /\ call' = [call EXCEPT
                   !.file1 = File(two_ByteArray(call.aborted, call.speeds)),
                   !.pc = "write_2"]
    /\ UNCHANGED <<prune_vars, run_vars>>

\* main writes the second output file when it is given one, logs the
\* success and returns True.
two_WriteSecond ==
    /\ call.fn = "fetch_tomtom_two.main"
    /\ call.pc = "write_2"
    /\ call' = [call EXCEPT
                   !.file2 = IF call.output_filename_2
                             THEN File(two_ByteArray(call.aborted, call.speeds))
                             ELSE @,
                   !.log = Append(@, two_Line("success", 0)),
                   !.result = "True",
                   !.pc = "done"]
    /\ UNCHANGED <<prune_vars, run_vars>>

NextTwo ==
    \/ two_MainStart
    \/ two_RequestData
    \/ two_ReturnSpeeds
    \/ two_WriteFirst
    \/ two_WriteSecond

SpecTwo == InitTwo /\ [][NextTwo]_vars

\* ------------------------------------------------------------------------
\* What a table holds, read off the rows themselves
\* ------------------------------------------------------------------------

\* The call of pruneCSVEntries has been made with a reader and a direction
\* that pass its argument guards.
Pruned == pruned # <<>> /\ ~csv_reader.none /\ direction # UNKNOWN

Outcome == pruned[1]

\* The rows of a table tagged with the direction dir.
RowsOf(rows, dir) ==
    SelectSeq(rows, LAMBDA e : \/ dir = NORTH /\ e.dir = "North"
                               \/ dir = SOUTH /\ e.dir = "South")

Kept == RowsOf(csv_reader.rows, direction)

\* Row i of kept repeats the LED number of an earlier row.
Repeats(kept, i) == \E j \in 1..(i - 1) : kept[j].led = kept[i].led

\* The LED numbers of the repeating rows, in stream order.
RECURSIVE RepeatedFrom(_, _)
RepeatedFrom(kept, i) ==
    IF i > Len(kept)
    THEN <<>>
    ELSE (IF Repeats(kept, i) THEN <<kept[i].led>> ELSE <<>>)
         \o RepeatedFrom(kept, i + 1)

HasDuplicate(kept) == \E i \in 1..Len(kept) : Repeats(kept, i)

Observed(kept) == {kept[i].led : i \in 1..Len(kept)}

\* The integers strictly between the least and the greatest observed LED
\* number that are not observed.
Gaps(kept) ==
    {n \in 1..MaxLed : /\ n \notin Observed(kept)
                       /\ \E a, b \in Observed(kept) : a < n /\ n < b}

\* The row carries a non-zero reference.
Aliasing(e) == e.ref \in Numerals \ {"0"}

Referenced(e) == CHOOSE n \in 1..MaxLed : ToString(n) = e.ref

\* The positions of the rows that are the first of their LED number.
Firsts(kept) == {i \in 1..Len(kept) : ~Repeats(kept, i)}

\* The LED numbers whose own row carries no reference.
Canonical(kept) == {kept[i].led : i \in {j \in Firsts(kept) : ~Aliasing(kept[j])}}

\* The referenced numbers that are not canonical.
BadTargets(kept) ==
    {Referenced(kept[i]) : i \in {j \in Firsts(kept) : Aliasing(kept[j])}}
        \ Canonical(kept)

\* The LED numbers referencing r, in stream order.
RECURSIVE ReferrersFrom(_, _, _)
ReferrersFrom(kept, r, i) ==
    IF i > Len(kept)
    THEN <<>>
    ELSE (IF i \in Firsts(kept) /\ Aliasing(kept[i]) /\ Referenced(kept[i]) = r
          THEN <<kept[i].led>> ELSE <<>>)
         \o ReferrersFrom(kept, r, i + 1)

LinesOf(log, kind) == SelectSeq(log, LAMBDA l : l.kind = kind)

Logged(log) == {log[i] : i \in 1..Len(log)}

AllDuplicatesLogged(kept, log) ==
    LinesOf(log, "duplicate") =
        [i \in 1..Len(RepeatedFrom(kept, 1)) |-> DupLine(RepeatedFrom(kept, 1)[i])]

AllGapsLogged(kept, log) ==
    /\ {l.leds[1] : l \in Logged(LinesOf(log, "missing"))} = Gaps(kept)
    /\ Len(LinesOf(log, "missing")) = Cardinality(Gaps(kept))

AllBadReferencesLogged(kept, log) ==
    \A r \in BadTargets(kept) :
        BadRefLine(ReferrersFrom(kept, r, 1), r) \in Logged(log)

\* ------------------------------------------------------------------------
\* Claims about pruneCSVEntries (specification SpecPrune)
\* ------------------------------------------------------------------------

\* C6: when a table holds defects of more than one kind (duplicate LED
\* numbers, gaps, bad references), every defect of every kind is in the log
\* when pruneCSVEntries raises.
C6_EveryKindLogged ==
    Pruned =>
        LET kinds == (IF HasDuplicate(Kept) THEN {"duplicate"} ELSE {})
                     \cup (IF ~allow_missing /\ Gaps(Kept) # {}
                           THEN {"missing"} ELSE {})
                     \cup (IF BadTargets(Kept) # {} THEN {"reference"} ELSE {})
        IN  Cardinality(kinds) >= 2 =>
                /\ Outcome.exc = "RuntimeError"
                /\ AllDuplicatesLogged(Kept, Outcome.log)
                /\ (~allow_missing => AllGapsLogged(Kept, Outcome.log))
                /\ AllBadReferencesLogged(Kept, Outcome.log)

\* C7: whenever some LED number occurs more than once among the rows kept
\* for the direction, pruneCSVEntries raises RuntimeError, wherever the
\* repeating rows stand, and every repeating row is in the log.
C7_DuplicateRaises ==
    Pruned /\ HasDuplicate(Kept) =>
        /\ Outcome.exc = "RuntimeError"
        /\ AllDuplicatesLogged(Kept, Outcome.log)

\* C7 witness: a table of the direction with two repeating rows that are
\* not next to their first occurrence has been resolved.
C7_Witness ==
    /\ Pruned
    /\ Len(Kept) = 3
    /\ Kept[1].led # Kept[2].led
    /\ Kept[3].led = Kept[1].led
    /\ Outcome.exc = "RuntimeError"

\* C8 as stated: with allow_missing a gap never raises; without it and
\* without duplicates, RuntimeError is raised iff there is a gap, and the
\* gap numbers are the ones logged as missing.
C8_MissingIffRuntimeError ==
    Pruned /\ ~HasDuplicate(Kept) =>
        /\ allow_missing => Outcome.msg # "Missing entries"
        /\ ~allow_missing =>
              /\ Outcome.exc = "RuntimeError" <=> Gaps(Kept) # {}
              /\ AllGapsLogged(Kept, Outcome.log)

\* C8 amended: with allow_missing a gap never raises; without it and
\* without duplicates, the RuntimeError "Missing entries" is raised iff
\* there is a gap, and the gap numbers are the ones logged as missing.
C8_MissingIffMissingError ==
    Pruned /\ ~HasDuplicate(Kept) =>
        /\ allow_missing =>
              /\ Outcome.msg # "Missing entries"
              /\ LinesOf(Outcome.log, "missing") = <<>>
        /\ ~allow_missing =>
              /\ (Outcome.exc = "RuntimeError" /\ Outcome.msg = "Missing entries")
                    <=> Gaps(Kept) # {}
              /\ AllGapsLogged(Kept, Outcome.log)

\* C8 witness: a table without duplicates and with a gap has been resolved
\* with allow_missing false and the call raised.
C8_Witness ==
    /\ Pruned
    /\ ~allow_missing
    /\ ~HasDuplicate(Kept)
    /\ Gaps(Kept) # {}
    /\ Outcome.msg = "Missing entries"

\* C9: whenever a kept row carries a non-zero reference to a number that is
\* not a canonical row of the direction, pruneCSVEntries raises
\* RuntimeError and every (referencing numbers, referenced number) group is
\* in the log.
C9_BadReferenceLogged ==
    Pruned /\ BadTargets(Kept) # {} =>
        /\ Outcome.exc = "RuntimeError"
        /\ AllBadReferencesLogged(Kept, Outcome.log)

\* The table with the Reference column of row i set to f.
WithReference(rows, i, f) == [rows EXCEPT ![i].ref = f]

\* The returned targets without the Reference column of their entries.
Targets(ret) ==
    [k \in 1..Len(ret) |->
        [led |-> ret[k].entry.led, dir |-> ret[k].entry.dir,
         freeway |-> ret[k].entry.freeway, leds |-> ret[k].leds]]

NoAlias == {"0", "", NoColumn}

\* C10: changing the Reference of a row between "0", blank and absent
\* changes neither the exception, nor the log, nor the targets returned, and
\* a row with Reference "0" is returned as a target whose first LED number
\* is its own.
C10_ZeroIsNoAlias ==
    Pruned =>
        /\ \A i \in 1..Len(csv_reader.rows), f \in NoAlias :
              csv_reader.rows[i].ref \in NoAlias =>
                  LET other == pruneCSVEntries(
                                   Reader(WithReference(csv_reader.rows, i, f)),
                                   direction, allow_missing)
                  IN  /\ other.exc = Outcome.exc
                      /\ other.msg = Outcome.msg
                      /\ other.log = Outcome.log
                      /\ Targets(other.ret) = Targets(Outcome.ret)
        /\ Outcome.exc = "" =>
              \A i \in Firsts(Kept) :
                  Kept[i].ref = "0" =>
                      \E k \in 1..Len(Outcome.ret) :
                          /\ Outcome.ret[k].entry = Kept[i]
                          /\ Outcome.ret[k].leds[1] = Kept[i].led

\* C10 witness: a table with a row of Reference "0" that another row
\* references has been resolved and returned.
C10_Witness ==
    /\ Pruned
    /\ Outcome.exc = ""
    /\ \E i, j \in 1..Len(Kept) :
          /\ Kept[i].ref = "0"
          /\ Aliasing(Kept[j])
          /\ Referenced(Kept[j]) = Kept[i].led

\* The places of the returned list: target k, position j of its LED list.
Slots(ret) ==
    {s \in (1..Len(ret)) \X (1..Len(csv_reader.rows)) :
        s[2] <= Len(ret[s[1]].leds)}

LedAt(ret, s) == ret[s[1]].leds[s[2]]

\* C11: whenever pruneCSVEntries returns, no LED number stands at two places
\* of the returned LED lists, the numbers of the lists are exactly the
\* numbers observed for the direction, and a table without aliases gives one
\* target for each row, bound to the row's own number only.
C11_Partition ==
    Pruned /\ Outcome.exc = "" =>
        /\ \A s, t \in Slots(Outcome.ret) :
              s # t => LedAt(Outcome.ret, s) # LedAt(Outcome.ret, t)
        /\ {LedAt(Outcome.ret, s) : s \in Slots(Outcome.ret)} = Observed(Kept)
        /\ (\A i \in 1..Len(Kept) : ~Aliasing(Kept[i])) =>
              /\ Len(Outcome.ret) = Len(Kept)
              /\ \A k \in 1..Len(Kept) :
                    Outcome.ret[k].leds = <<Kept[k].led>>

\* C11 witness: a table of three rows of the direction, one of them an
\* alias, has been resolved to two targets.
C11_Witness ==
    /\ Pruned
    /\ Outcome.exc = ""
    /\ Len(Kept) = 3
    /\ Len(Outcome.ret) = 2
    /\ \E k \in 1..2 : Len(Outcome.ret[k].leds) = 2

\* C12: in every returned target the first LED number is the one of the
\* target's own entry and the others are the numbers of all the rows that
\* reference it, in the order of the rows in the table; no two targets have
\* the same entry number.
C12_RepresentativeFirst ==
    Pruned /\ Outcome.exc = "" =>
        /\ \A k \in 1..Len(Outcome.ret) :
              /\ Outcome.ret[k].leds[1] = Outcome.ret[k].entry.led
              /\ Tail(Outcome.ret[k].leds) =
                     ReferrersFrom(Kept, Outcome.ret[k].entry.led, 1)
        /\ \A k, m \in 1..Len(Outcome.ret) :
              k # m => Outcome.ret[k].entry.led # Outcome.ret[m].entry.led

\* C12 witness: two rows referencing the same number, the greater number
\* first, have been folded into one target.
C12_Witness ==
    /\ Pruned
    /\ Outcome.exc = ""
    /\ \E k \in 1..Len(Outcome.ret) :
          /\ Len(Outcome.ret[k].leds) = 3
          /\ Outcome.ret[k].leds[2] > Outcome.ret[k].leds[3]

\* C23: pruneCSVEntries raises when the table holds no row of the requested
\* direction, the empty table included, whatever allow_missing is.
C23_EmptyDirectionRaises ==
    Pruned /\ Kept = <<>> => Outcome.exc # ""

\* C24: pruneCSVEntries raises TypeError when the reader is None, and
\* ValueError when it is given a reader and the direction UNKNOWN, whatever
\* allow_missing is; no row is consumed: nothing is logged, and the outcome
\* is the one the empty reader gives.
C24_ArgumentGuards ==
    pruned # <<>> =>
        /\ csv_reader.none =>
               /\ Outcome.exc = "TypeError"
               /\ Outcome.log = <<>>
        /\ ~csv_reader.none /\ direction = UNKNOWN =>
               /\ Outcome.exc = "ValueError"
               /\ Outcome.log = <<>>
               /\ Outcome = pruneCSVEntries(Reader(<<>>), UNKNOWN, allow_missing)

\* C24 witness: a table whose rows repeat an LED number, which would be
\* logged were a row consumed, has been handed over with the direction
\* UNKNOWN and allow_missing set.
C24_Witness ==
    /\ pruned # <<>>
    /\ ~csv_reader.none
    /\ direction = UNKNOWN
    /\ allow_missing
    /\ Len(csv_reader.rows) = 3
    /\ csv_reader.rows[1].led = csv_reader.rows[2].led
    /\ csv_reader.rows[1].dir = csv_reader.rows[2].dir
    /\ Outcome.exc = "ValueError"

\* The rows of the table tagged with the opposite direction.
Opposite == RowsOf(csv_reader.rows, IF direction = NORTH THEN SOUTH ELSE NORTH)

RequestsOf(ph) == SelectSeq(requests, LAMBDA r : r.phase = ph)

\* C1: while a table is being resolved no request has been sent for it,
\* and when pruneCSVEntries raises for the table of main or for the table of
\* createAddendum, no tile request and no segment request is ever sent for
\* an entry of that table.
C1_ValidateBeforeFetch ==
    /\ pc \in {"open", "scan"} => RequestsOf(phase) = <<>>
    /\ \A ph \in {"main", "addendum"} :
          caught[ph].at = "pruneCSVEntries" => RequestsOf(ph) = <<>>

\* C1 witness: main has ended on a table of LEDs 1 and 3 that lacks LED 2.
C1_Witness ==
    /\ pc = "done"
    /\ caught.main.at = "pruneCSVEntries"
    /\ caught.main.log = <<MissingLine(2)>>
    /\ result = "False"

\* The byte the binary artifact is to hold for a speed.
Normalized(speed) == IF speed \in {-1, -2} THEN 0 ELSE speed

\* C2: for every table that passes resolution, with "Special" targets (-2)
\* and failed targets (-1), main does not fail on the byte array and the
\* binary artifact it writes holds bytes only, 0 for both sentinels.
C2_SentinelsWrittenAsZero ==
    /\ caught.main.at # "bytearray"
    /\ pc = "addendum" /\ "bin" \in written =>
          /\ Len(binFile.data) = Len(speeds) + 1
          /\ \A k \in 1..Len(speeds) :
                /\ binFile.data[k + 1] \in 0..255
                /\ speeds[k][2] < 0 => binFile.data[k + 1] = 0

\* C3: the binary artifact main writes has max_index + 1 bytes, byte 0 is 0
\* and the byte at offset i is the normalized speed of LED i, whatever the
\* least LED number of the table.
C3_ByteAtIndex ==
    pc = "addendum" /\ "bin" \in written /\ speeds # <<>> =>
        LET max_index == CHOOSE m \in {speeds[k][1] : k \in 1..Len(speeds)} :
                             \A k \in 1..Len(speeds) : speeds[k][1] <= m
        IN  /\ Len(binFile.data) = max_index + 1
            /\ binFile.data[1] = 0
            /\ \A k \in 1..Len(speeds) :
                  /\ speeds[k][1] + 1 \in 1..Len(binFile.data)
                  /\ binFile.data[speeds[k][1] + 1] = Normalized(speeds[k][2])

\* C4: no failure of the tile or of the segment source raises out of
\* requestSpeeds: neither main nor createAddendum ever catches an exception
\* of a request.
C4_SourcesNeverRaise ==
    \A ph \in {"main", "addendum"} : caught[ph].at # "requestSpeeds"

\* C5: when no file operation fails, a run of main ends either returning
\* True with the three artifacts written, or with no artifact created or
\* modified and no request sent.
C5_AllOrNothing ==
    pc = "done" /\ faults = {} =>
        \/ result = "True" /\ written = {"csv", "bin", "add"}
        \/ /\ result # "True"
           /\ written = {}
           /\ csvFile = (IF old THEN OldCsv ELSE NoFile)
           /\ binFile = (IF old THEN OldBin ELSE NoFile)
           /\ addFile = (IF old THEN OldAdd ELSE NoFile)
           /\ requests = <<>>

\* The row of the delimited-text artifact for an LED number.
CsvRowOf(led_num) ==
    csvFile.data[CHOOSE i \in 1..Len(csvFile.data) : csvFile.data[i].led = led_num]

\* C19: the delimited-text artifact main writes holds one (LED number,
\* speed) row for each LED number observed for the direction and no other
\* row, the rows in strictly ascending order of LED number, and the LED
\* numbers of a target all carry the same speed.
C19_CsvRows ==
    pc = "write_bin" =>
        /\ \A i \in 1..Len(csvFile.data) : csvFile.data[i].kind = "row"
        /\ {csvFile.data[i].led : i \in 1..Len(csvFile.data)} = st.seen_leds
        /\ Len(csvFile.data) = Cardinality(st.seen_leds)
        /\ \A i, j \in 1..Len(csvFile.data) :
              i < j => csvFile.data[i].led < csvFile.data[j].led
        /\ \A k \in 1..Len(entry_leds_pairs) :
              \A j \in 1..Len(entry_leds_pairs[k].leds) :
                  CsvRowOf(entry_leds_pairs[k].leds[j]).speed =
                      CsvRowOf(entry_leds_pairs[k].leds[1]).speed

\* C19 witness: the target of LED 2, which LED 1 aliases, was given 40 mph
\* and the rows of LED 1 and LED 2 have been written in that order.
C19_Witness ==
    /\ pc = "write_bin"
    /\ Len(entry_leds_pairs) = 1
    /\ entry_leds_pairs[1].leds = <<2, 1>>
    /\ csvFile.data = <<RowLine(<<1, 40>>), RowLine(<<2, 40>>)>>

\* The lines of an addendum for the LED numbers leds: the metadata line, a
\* blank line, then one row for each of the numbers and no other row.
AddendumFor(lines, leds) ==
    /\ Len(lines) = 2 + Cardinality(leds)
    /\ lines[1] = MetaLine
    /\ lines[2] = BlankLine
    /\ \A i \in 3..Len(lines) : lines[i].kind = "row"
    /\ {lines[i].led : i \in 3..Len(lines)} = leds

\* C20: createAddendum resolves its table with missing LED numbers allowed,
\* so that it never fails on a missing number, and the file it writes holds
\* the prior artifact's reference in braces, a blank line, then one row for
\* each LED number of the table for the direction and for no other number.
C20_AddendumContent ==
    [][/\ \A i \in 1..Len(caught'.addendum.log) :
             caught'.addendum.log[i].kind # "missing"
       /\ ("add" \notin written /\ "add" \in written') =>
             /\ phase = "addendum"
             /\ allow_missing
             /\ addFile'.exists
             /\ AddendumFor(addFile'.data, st.seen_leds)]_vars

\* C20 witness: the addendum of a table of LED 1 and LED 3, LED 2 missing,
\* has been written.
C20_Witness ==
    /\ "add" \in written
    /\ result = "True"
    /\ Len(addFile.data) = 4
    /\ {addFile.data[3].led, addFile.data[4].led} = {1, 3}

\* C21: the rows of the addendum artifact createAddendum writes are in
\* ascending order of LED number, as the rows of the full artifact are.
C21_AddendumAscending ==
    "add" \in written =>
        \A i, j \in 3..Len(addFile.data) :
            i < j => addFile.data[i].led < addFile.data[j].led

\* The stage at which the call in progress (main, or createAddendum inside
\* it) has not yet got the complete list back from requestSpeeds.
BeforeList == pc \in {"main", "open", "scan", "request"}

\* The exception caught by main or by createAddendum came out of
\* pruneCSVEntries (resolution) or requestSpeeds (retrieval).
RaisedIn(p) == caught[p].at \in {"pruneCSVEntries", "requestSpeeds"}

\* C22: an existing artifact is opened for writing only once requestSpeeds
\* has returned the complete list for it: while main has not got its list
\* the three artifacts hold their previous contents, and while createAddendum
\* has not got its list the addendum does; so when resolution or retrieval
\* raises, in main the three artifacts, and in createAddendum the addendum,
\* hold their previous contents.
C22_NoPartialWrites ==
    old =>
        /\ phase = "main" /\ BeforeList =>
               csvFile = OldCsv /\ binFile = OldBin /\ addFile = OldAdd
        /\ phase = "addendum" /\ BeforeList => addFile = OldAdd
        /\ RaisedIn("main") =>
               csvFile = OldCsv /\ binFile = OldBin /\ addFile = OldAdd
        /\ RaisedIn("addendum") => addFile = OldAdd

\* C22 witness: with the artifacts of an earlier run in place, requestSpeeds
\* raised in main after sending a request, and the artifacts are as they were.
C22_Witness ==
    /\ old
    /\ caught.main.at = "requestSpeeds"
    /\ requests # <<>>
    /\ result = "False"
    /\ csvFile = OldCsv /\ binFile = OldBin /\ addFile = OldAdd

\* C28: from the call of createAddendum on, no step changes the
\* delimited-text or the binary artifact and no exception reaches the except
\* clause of main; when createAddendum has caught an exception (the table
\* cannot be opened, resolution raises, retrieval raises, the write fails)
\* main returns True, and if the exception came out of resolution or
\* retrieval the addendum file is as it was before the run: absent, or
\* holding its previous content.
C28_AddendumIsolated ==
    [][phase' = "addendum" =>
          /\ csvFile' = csvFile
          /\ binFile' = binFile
          /\ "csv" \in written'
          /\ caught'.main = NoException
          /\ caught'.addendum # NoException =>
                /\ pc' = "done"
                /\ result' = "True"
                /\ caught'.addendum.at \in {"open", "pruneCSVEntries",
                                            "requestSpeeds", "write"}
                /\ caught'.addendum.at \in {"pruneCSVEntries", "requestSpeeds"} =>
                      addFile' = (IF old THEN OldAdd ELSE NoFile)]_vars

\* C28 witness: main has written its two artifacts, requestSpeeds raised
\* inside createAddendum, main has returned True and the addendum of the
\* earlier run is in place.
C28_Witness ==
    /\ pc = "done"
    /\ old
    /\ caught.addendum.at = "requestSpeeds"
    /\ caught.main = NoException
    /\ result = "True"
    /\ {"csv", "bin"} \subseteq written
    /\ addFile = OldAdd

\* ------------------------------------------------------------------------
\* Claims about requestSpeeds (specification SpecSpeeds)
\* ------------------------------------------------------------------------

\* requestSpeeds has been called on its own.
SpeedsCalled == call.fn = "requestSpeeds" /\ call.out # <<>>

Speeds == call.out[1]

\* The requests of the call sent for target k, in order.
RequestsFor(k) == SelectSeq(Speeds.requests, LAMBDA r : r.target = k)

Special(k) == call.entry_led_pairs[k].entry.freeway = "Special"

\* C13: for a target whose entry has Freeway "Special", requestSpeeds sends
\* no tile and no segment request, and when it returns, -2 is recorded for
\* every LED number of the target, for both speed types and both values of
\* fail_with_zero.
C13_SpecialExcluded ==
    SpeedsCalled =>
        \A k \in 1..Len(call.entry_led_pairs) :
            Special(k) =>
                /\ RequestsFor(k) = <<>>
                /\ Speeds.exc = "" =>
                      \A j \in 1..Len(call.entry_led_pairs[k].leds) :
                          /\ \E i \in 1..Len(Speeds.ret) :
                                Speeds.ret[i] = <<call.entry_led_pairs[k].leds[j], -2>>
                          /\ \A i \in 1..Len(Speeds.ret) :
                                Speeds.ret[i][1] = call.entry_led_pairs[k].leds[j]
                                    => Speeds.ret[i][2] = -2

\* C13 witness: requestSpeeds has returned from a call with fail_with_zero
\* on a "Special" target of two LED numbers whose columns and answers would
\* have given a speed.
C13_Witness ==
    /\ SpeedsCalled
    /\ Speeds.exc = ""
    /\ call.fail_with_zero
    /\ Special(1)
    /\ call.entry_led_pairs[1].leds = <<1, 3>>
    /\ call.answers[1].columns = GoodColumns
    /\ call.answers[1].tile.kind = "tile"

\* The outcome of the tile source for target k.
TileOutcome(k) ==
    requestTileData(call.answers[k].columns.tile, call.answers[k].tile)

\* C14: for each target requestSpeeds sends at most one tile request and at
\* most one segment request, the tile request first; a segment request is
\* sent only when the tile source has returned the failure value; the
\* requests follow the order of the targets, so that an aliasing LED number
\* causes no request of its own.
C14_FallbackOnce ==
    SpeedsCalled =>
        /\ \A k \in 1..Len(call.entry_led_pairs) :
              /\ RequestsFor(k) \in
                    {<<>>, <<[target |-> k, source |-> "tile"]>>,
                     <<[target |-> k, source |-> "segment"]>>,
                     <<[target |-> k, source |-> "tile"],
                       [target |-> k, source |-> "segment"]>>}
              /\ (\E i \in 1..Len(RequestsFor(k)) :
                      RequestsFor(k)[i].source = "segment")
                    => TileOutcome(k).exc = "" /\ TileOutcome(k).val = -1
        /\ \A i \in 1..Len(Speeds.requests) :
              /\ Speeds.requests[i].target \in 1..Len(call.entry_led_pairs)
              /\ \A j \in 1..(i - 1) :
                    Speeds.requests[j].target <= Speeds.requests[i].target

\* C14 witness: of two targets the first, which an LED number aliases, got
\* its speed from the tile source and the second from the segment source
\* after the tile source failed.
C14_Witness ==
    /\ SpeedsCalled
    /\ Speeds.exc = ""
    /\ Len(call.entry_led_pairs) = 2
    /\ call.entry_led_pairs[1].leds = <<1, 3>>
    /\ Speeds.requests =
          <<[target |-> 1, source |-> "tile"],
            [target |-> 2, source |-> "tile"],
            [target |-> 2, source |-> "segment"]>>
    /\ Speeds.ret = <<<<1, 40>>, <<3, 40>>, <<2, 30>>>>

\* The outcome of the segment source for target k.
SegmentOutcome(k) ==
    requestSegmentData(call.answers[k].columns, call.speed_type,
                       call.answers[k].segment)

\* Both sources have returned the failure value for target k.
BothFailed(k) ==
    /\ ~Special(k)
    /\ TileOutcome(k) = Returns(-1, TileOutcome(k).sent)
    /\ SegmentOutcome(k) = Returns(-1, SegmentOutcome(k).sent)

\* The speeds the returned list records for the LED number led.
RecordedFor(led) ==
    {Speeds.ret[i][2] : i \in {j \in 1..Len(Speeds.ret) : Speeds.ret[j][1] = led}}

\* C26: when requestSpeeds returns from a call with fail_with_zero=True
\* every speed of the list is >= 0, the unknown and the excluded ("Special")
\* outcome both being recorded as 0; with fail_with_zero=False a target
\* whose two sources both failed is recorded as -1.
C26_NonNegativeMode ==
    SpeedsCalled /\ Speeds.exc = "" =>
        /\ call.fail_with_zero =>
               /\ \A i \in 1..Len(Speeds.ret) : Speeds.ret[i][2] >= 0
               /\ \A k \in 1..Len(call.entry_led_pairs) :
                      Special(k) \/ BothFailed(k) =>
                          \A j \in 1..Len(call.entry_led_pairs[k].leds) :
                              RecordedFor(call.entry_led_pairs[k].leds[j]) = {0}
        /\ ~call.fail_with_zero =>
               \A k \in 1..Len(call.entry_led_pairs) :
                   BothFailed(k) =>
                       \A j \in 1..Len(call.entry_led_pairs[k].leds) :
                           RecordedFor(call.entry_led_pairs[k].leds[j]) = {-1}

\* The tile source has given a speed for target k.
TileSucceeded(k) ==
    /\ ~Special(k)
    /\ TileOutcome(k).exc = ""
    /\ TileOutcome(k).val # -1

\* C29: whatever the speed type, requestSpeeds asks the tile source first
\* for a target that is not "Special"; when the tile source gives a speed,
\* that speed is recorded for the target's LED numbers for a TYPICAL request
\* as for a CURRENT one and the segment source is not asked; the segment
\* source, whose freeFlowSpeed a TYPICAL request reads, is asked only after
\* the tile source has returned the failure value.
C29_TileFirstForEveryType ==
    SpeedsCalled =>
        \A k \in 1..Len(call.entry_led_pairs) :
            /\ TileOutcome(k).sent /\ RequestsFor(k) # <<>> =>
                   RequestsFor(k)[1] = [target |-> k, source |-> "tile"]
            /\ TileSucceeded(k) =>
                   /\ [target |-> k, source |-> "segment"]
                          \notin {Speeds.requests[i] : i \in 1..Len(Speeds.requests)}
                   /\ Speeds.exc = "" =>
                          \A j \in 1..Len(call.entry_led_pairs[k].leds) :
                              RecordedFor(call.entry_led_pairs[k].leds[j])
                                  = {TileOutcome(k).val}
            /\ [target |-> k, source |-> "segment"]
                   \in {Speeds.requests[i] : i \in 1..Len(Speeds.requests)} =>
                   /\ ~Special(k)
                   /\ TileOutcome(k) = Returns(-1, TileOutcome(k).sent)

\* C29 witness: a TYPICAL call on two targets; for the first the tile gave
\* 40 and the segment source, whose freeFlowSpeed would have been 50, was
\* not asked; for the second the tile source failed and the freeFlowSpeed 50
\* of the segment source is recorded.
C29_Witness ==
    /\ SpeedsCalled
    /\ call.speed_type = TYPICAL
    /\ Len(call.entry_led_pairs) = 2
    /\ call.answers[1].segment.kind = "json"
    /\ call.answers[1].segment.data.freeFlowSpeed = JsonNumber(50)
    /\ Speeds.requests =
          <<[target |-> 1, source |-> "tile"],
            [target |-> 2, source |-> "tile"],
            [target |-> 2, source |-> "segment"]>>
    /\ Speeds.ret = <<<<1, 40>>, <<2, 50>>>>

\* ------------------------------------------------------------------------
\* Claims about requestTileData (specification SpecTile)
\* ------------------------------------------------------------------------

\* requestTileData has been called on its own.
TileCalled == call.fn = "requestTileData" /\ call.out # <<>>

TileOut == call.out[1]

\* The identifier has exactly two '/' and the endpoint answered 200 with a
\* tile that parses.
TileDecoded ==
    /\ call.tile_column # NoTile
    /\ Len(call.tile_column) = 3
    /\ call.resp.kind = "tile"

\* The numbers, counted from 0, of the keys named "traffic_level".
LevelKeys(layer) ==
    {t \in 0..(Len(layer.keys) - 1) : layer.keys[t + 1] = "traffic_level"}

\* The value indexes the tag pairs of the feature give for key number t, in
\* the order of the pairs.
ValueIndexes(feature, t) ==
    LET tags == feature.tags
        at == SelectSeq([p \in 1..(Len(tags) \div 2) |-> p],
                        LAMBDA p : tags[2 * p - 1] = t)
    IN  [i \in 1..Len(at) |-> tags[2 * at[i]]]

\* The layer, of one feature, resolves "traffic_level" to the double x.
ResolvesTo(layer, x) ==
    /\ Len(layer.features) = 1
    /\ LevelKeys(layer) # {}
    /\ LET t == CHOOSE k \in LevelKeys(layer) : \A j \in LevelKeys(layer) : k <= j
           indexes == ValueIndexes(layer.features[1], t)
       IN  /\ indexes # <<>>
           /\ indexes[1] + 1 \in 1..Len(layer.values)
           /\ layer.values[indexes[1] + 1] = [type |-> "double", double |-> x]

\* One of the structural defects of a decoded tile: the layers are not one,
\* the features are not one, no key is named "traffic_level", no tag pair
\* stands for the key, the value index is outside the value table, the value
\* is not a double.
Defective(tile) ==
    \/ Len(tile.layers) # 1
    \/ ~\E x \in Doubles : ResolvesTo(tile.layers[1], x)

\* An entry of an ordinary freeway, with valid segment columns, whose tile
\* column and tile answer are the ones of the call.
Ordinary == CHOOSE e \in Entries : e.freeway = "101"

SpeedAfterTile(type, zero, segment_resp) ==
    SpeedOfEntry(Ordinary, [GoodColumns EXCEPT !.tile = call.tile_column],
                 type, zero, call.resp, segment_resp)

\* C15: a tile identifier without exactly two '/', or a decoded tile with
\* one of the structural defects, makes requestTileData return the failure
\* value -1, and requestSpeeds then asks the segment source.
C15_DefectiveTileFails ==
    /\ TileCalled
    /\ \/ call.tile_column = NoTile
       \/ Len(call.tile_column) # 3
       \/ TileDecoded /\ Defective(call.resp.tile)
    =>
            /\ TileOut.exc = ""
            /\ TileOut.val = -1
            /\ \A type \in {CURRENT, TYPICAL}, zero \in BOOLEAN,
                  segment_resp \in SegmentResponses :
                  SpeedAfterTile(type, zero, segment_resp).segment_sent

\* C15 witness: a tile of two layers, the first of which resolves to a
\* speed, has been decoded and has failed.
C15_Witness ==
    /\ TileCalled
    /\ TileDecoded
    /\ Len(call.resp.tile.layers) = 2
    /\ ResolvesTo(call.resp.tile.layers[1], 64)
    /\ TileOut = Returns(-1, TRUE)

\* The integer nearest to x * 0.621371.
Nearest(x) ==
    LET magnitude == IF x < 0 THEN -x ELSE x
    IN  CHOOSE n \in (-magnitude)..magnitude :
            /\ 2 * (n * 1000000 - x * 621371) <= 1000000
            /\ 2 * (x * 621371 - n * 1000000) < 1000000

\* C16 as stated: for a tile of one layer and one feature that resolves
\* "traffic_level" to the double X, requestTileData returns the integer
\* nearest to X * 0.621371 and that value is the speed of the target.
C16_NearestMphIsSpeed ==
    TileCalled /\ TileDecoded /\ Len(call.resp.tile.layers) = 1 =>
        \A x \in Doubles :
            ResolvesTo(call.resp.tile.layers[1], x) =>
                /\ TileOut = Returns(Nearest(x), TRUE)
                /\ \A type \in {CURRENT, TYPICAL}, zero \in BOOLEAN,
                      segment_resp \in SegmentResponses :
                      /\ SpeedAfterTile(type, zero, segment_resp).exc = ""
                      /\ SpeedAfterTile(type, zero, segment_resp).val = Nearest(x)

\* C16 amended: requestTileData returns the integer nearest to
\* X * 0.621371; when that integer is not -1 it is the speed of the target
\* and the segment source is not asked; when it is -1 it is taken for the
\* failure value and the segment source is asked as after a failed tile
\* request.
C16_NearestMphUnlessSentinel ==
    TileCalled /\ TileDecoded /\ Len(call.resp.tile.layers) = 1 =>
        \A x \in Doubles :
            ResolvesTo(call.resp.tile.layers[1], x) =>
                /\ TileOut = Returns(Nearest(x), TRUE)
                /\ \A type \in {CURRENT, TYPICAL}, zero \in BOOLEAN,
                      segment_resp \in SegmentResponses :
                      IF Nearest(x) # -1
                      THEN SpeedAfterTile(type, zero, segment_resp) =
                               [exc |-> "", val |-> Nearest(x),
                                tile_sent |-> TRUE, segment_sent |-> FALSE]
                      ELSE SpeedAfterTile(type, zero, segment_resp) =
                               SpeedOfEntry(Ordinary, GoodColumns, type, zero,
                                            [kind |-> "status",
                                             tile |-> NoTileDecoded],
                                            segment_resp)

\* C16 witness: a tile whose traffic level is 64 km/h, found through the
\* second key and the second value, has given 40 mph.
C16_Witness ==
    /\ TileCalled
    /\ TileDecoded
    /\ call.resp.tile =
          [layers |-> <<[GoodLayer EXCEPT !.features = <<[tags |-> <<1, 1>>]>>]>>]
    /\ TileOut = Returns(40, TRUE)

\* ------------------------------------------------------------------------
\* Claims about requestSegmentData (specification SpecSegment)
\* ------------------------------------------------------------------------

\* requestSegmentData has been called on its own and the endpoint answered
\* 200 with a JSON object.
SegmentAnswered ==
    /\ call.fn = "requestSegmentData"
    /\ call.out # <<>>
    /\ validEntrySegmentData(call.columns)
    /\ call.resp.kind = "json"

SegmentOut == call.out[1]

\* The response flags a road closure: the member is the JSON value true, or
\* the string "true".
FlagsClosure(data) ==
    data.roadClosure = JsonBool(TRUE) \/ data.roadClosure = JsonString("true")

\* C17: when the response flags a road closure, requestSegmentData returns 0
\* for a CURRENT request and -1 for a TYPICAL request, whatever the speed
\* members of the response.
C17_ClosureSpeed ==
    SegmentAnswered /\ FlagsClosure(call.resp.data) =>
        SegmentOut =
            Returns(IF call.speed_type = CURRENT THEN 0 ELSE -1, TRUE)

\* The response echoes an openLR code that is not the one of the entry.
Mismatched ==
    /\ call.resp.data.openlr.type = "string"
    /\ call.resp.data.openlr.str # call.columns.openlr

\* C18: whenever the response echoes an openLR code different from the
\* entry's, requestSegmentData returns nothing but -1, for every speed type
\* and every value of the closure flag: no speed, the closure speed 0
\* included, is taken from such a response.
C18_MismatchIsUnknown ==
    SegmentAnswered /\ Mismatched /\ SegmentOut.exc = "" =>
        SegmentOut.val = -1

\* A column of the entry holds something: it is neither absent (None) nor
\* a blank field.
Present(field) == field \notin {NoColumn, ""}

\* C25: requestSegmentData sends a request only if the Latitude, Longitude
\* and openLr Code of the entry are all present; if one of them is absent or
\* blank it returns -1 and sends nothing.
C25_SegmentPreconditions ==
    call.fn = "requestSegmentData" /\ call.out # <<>> =>
        LET complete == /\ Present(call.columns.lat)
                        /\ Present(call.columns.lon)
                        /\ Present(call.columns.openlr)
        IN  /\ SegmentOut.sent => complete
            /\ ~complete => SegmentOut = Returns(-1, FALSE)

\* ------------------------------------------------------------------------
\* Claims about the legacy script (specification SpecTwo)
\* ------------------------------------------------------------------------

\* C27: when the legacy requestSpeeds aborts on its table (a duplicate LED
\* number, a missing number in 1..max, a bad reference), main writes to
\* neither output file, which keep their previous contents, logs no success
\* and does not return True.
C27_LegacyAbortWritesNothing ==
    call.fn = "fetch_tomtom_two.main" /\ call.aborted =>
        /\ call.file1 = OldBin
        /\ call.file2 = OldBin
        /\ call.result # "True"
        /\ \A i \in 1..Len(call.log) : call.log[i].kind # "success"

====
